---- MODULE Spec2Model ----
(***************************************************************************)
(* State-machine model of the agri-trace backend relay (src/index.js):     *)
(* the Express handlers /local-pickup, /aggregateAndAnchor,                *)
(* /get-placename and /update-location, the Firebase document store, the   *)
(* reverse geocoder and the ledger contract they talk to.                  *)
(*                                                                         *)
(* A handler runs atomically between two awaits; each await is a separate  *)
(* step whose outcome (resolved / rejected) the environment chooses.       *)
(*                                                                         *)
(* Numbers.  Sensor values are fixed-point integers in thousandths         *)
(* (20456 stands for 20.456).  The string produced by toFixed(2) is        *)
(* represented by the integer number of hundredths it denotes ("20.46" is  *)
(* 2046).  SHA-256 is modelled as a collision-free function of the         *)
(* serialised text.                                                        *)
(***************************************************************************)
EXTENDS Integers, Sequences, FiniteSets, TLC

VARIABLES
    reqs,              \* request slot -> the handler invocation running in it
    vehicle_data,      \* store: /vehicle_data/BATCH_<id>  (raw sensor readings)
    route,             \* store: /batches/BATCH_<id>/route (pushed GPS points)
    latest,            \* store: latest-position slot of a batch
    ledger,            \* contract calls storeSensorHash(...) made so far
    activeTransports,  \* in-memory map of the server process
    now,               \* wall clock read by Date.now()
    env_FIREBASE_DB_URL \* whether process.env.FIREBASE_DB_URL is set

vars == <<reqs, vehicle_data, route, latest, ledger, activeTransports, now,
          env_FIREBASE_DB_URL>>

(* ------------------------------ bounds --------------------------------- *)

\* concurrent / successive HTTP requests
MaxReqs == 2
\* readings stored under one batch
MaxReadings == 2
\* ticks of the wall clock
MaxClock == 2

(* --------------------------- value domains ----------------------------- *)

\* an optional value: <<>> is undefined / absent, <<v>> is v
None == <<>>

Some(v) == <<v>>

Val(o) == o[1]

Opt(S) == {None} \cup {Some(v) : v \in S}

Slots == 1..MaxReqs

BatchIds == {"8"}

\* keys of the route collection: template strings turn a missing batchId
\* into the path segment BATCH_undefined
RouteKeys == BatchIds \cup {"undefined"}

TempVals == {0, 20456}

HumVals == {55420}

TsVals == {1000}

\* one child of /vehicle_data/BATCH_<id>
ReadingVals ==
    [temperature_C : Opt(TempVals), humidity_pct : Opt(HumVals),
     local_timestamp_ms : Opt(TsVals)]

RECURSIVE SeqsUpTo(_, _)
SeqsUpTo(S, n) ==
    IF n = 0 THEN {<<>>}
    ELSE LET shorter == SeqsUpTo(S, n - 1)
         IN  shorter \cup {Append(s, x) : s \in {t \in shorter : Len(t) = n - 1}, x \in S}

\* what GET <path>.json answers: null, or the object of pushed children in
\* key (insertion) order
NullNode == [exists |-> FALSE, children |-> <<>>]

Node(children) == [exists |-> TRUE, children |-> children]

StoreVals ==
    {NullNode} \cup {Node(s) : s \in SeqsUpTo(ReadingVals, MaxReadings) \ {<<>>}}

(* ------------------- aggregation (pure functions) ---------------------- *)

\* the guard written as a truthiness test, which drops a reading of 0
HasBothTruthy(reading) ==
    /\ reading.temperature_C # None /\ reading.humidity_pct # None
    /\ Val(reading.temperature_C) # 0 /\ Val(reading.humidity_pct) # 0

\* index.js:117  the guard under which a reading is pushed to temps and hums
HasBoth(reading) ==
    reading.temperature_C # None /\ reading.humidity_pct # None

\* index.js:116-119  temps: Number(reading.temperature_C) of every accepted
\* reading, in Object.values order
Temps(children) ==
    LET sel == SelectSeq(children, HasBoth)
    IN  [i \in 1..Len(sel) |-> Val(sel[i].temperature_C)]

\* index.js:116-119  hums: Number(reading.humidity_pct) of every accepted reading
Hums(children) ==
    LET sel == SelectSeq(children, HasBoth)
    IN  [i \in 1..Len(sel) |-> Val(sel[i].humidity_pct)]

\* index.js:113,122-124  the running maximum of local_timestamp_ms over the
\* accepted readings, starting from 0 (undefined > n is false)
RECURSIVE LastTimestamp(_)
LastTimestamp(children) ==
    IF children = <<>> THEN 0
    ELSE LET prev == LastTimestamp(SubSeq(children, 1, Len(children) - 1))
             r    == children[Len(children)]
         IN  IF HasBoth(r) /\ r.local_timestamp_ms # None
                /\ Val(r.local_timestamp_ms) > prev
             THEN Val(r.local_timestamp_ms)
             ELSE prev

RECURSIVE SumSeq(_)
SumSeq(arr) ==
    IF arr = <<>> THEN 0 ELSE arr[1] + SumSeq(Tail(arr))

\* index.js:229-231  avg: the exact quotient sum / length, kept as a fraction
avg(arr) == [num |-> SumSeq(arr), den |-> Len(arr)]

\* Number.prototype.toFixed(2) of the fraction q (in thousandths): the integer
\* n of hundredths for which n/100 is closest to q, the larger magnitude on a
\* tie; the sign is handled apart, as the language does.  (On a decimal tie
\* the binary expansion of the double decides; TempVals and HumVals are
\* chosen so that no mean of up to four readings is a tie.)
ToFixed2(q) ==
    LET mag == IF q.num < 0 THEN 0 - q.num ELSE q.num
        n   == (2 * mag + 10 * q.den) \div (20 * q.den)
    IN  IF q.num < 0 THEN 0 - n ELSE n

\* index.js:137  Math.min(...temps)
MathMin(arr) ==
    CHOOSE x \in {arr[i] : i \in 1..Len(arr)} : \A j \in 1..Len(arr) : x <= arr[j]

\* index.js:138  Math.max(...temps)
MathMax(arr) ==
    CHOOSE x \in {arr[i] : i \in 1..Len(arr)} : \A j \in 1..Len(arr) : x >= arr[j]

\* index.js:140  lastTimestamp || Date.now()
PeriodEnd(lastTimestamp, clock) ==
    IF lastTimestamp # 0 THEN lastTimestamp ELSE clock

\* index.js:133-141  the aggregate object; avgTemp and avgHumidity are the
\* hundredths denoted by the toFixed(2) strings, minTemp and maxTemp are
\* thousandths
Aggregate(batchId, children, clock) ==
    [batchId      |-> batchId,
     avgTemp      |-> ToFixed2(avg(Temps(children))),
     avgHumidity  |-> ToFixed2(avg(Hums(children))),
     minTemp      |-> MathMin(Temps(children)),
     maxTemp      |-> MathMax(Temps(children)),
     sampleCount  |-> Len(Temps(children)),
     periodEnd    |-> PeriodEnd(LastTimestamp(children), clock)]

\* index.js:144  JSON.stringify(aggregate): the members in insertion order
JSONStringify(a) ==
    << <<"batchId", a.batchId>>, <<"avgTemp", a.avgTemp>>,
       <<"avgHumidity", a.avgHumidity>>, <<"minTemp", a.minTemp>>,
       <<"maxTemp", a.maxTemp>>, <<"sampleCount", a.sampleCount>>,
       <<"periodEnd", a.periodEnd>> >>

\* index.js:144  CryptoJS.SHA256(text).toString(): equal digests for equal
\* texts, different digests for different texts
SHA256(text) == <<"sha256", text>>

(* --------------------------- request slots ----------------------------- *)

\* req.body / req.query of a request: every field optional
EmptyBody ==
    [batchId |-> None, transporter |-> None, location |-> None, time |-> None,
     lat |-> None, lng |-> None]

\* a slot no request has arrived in yet.  sent is what the handler has written
\* to res; reads / writes count the store calls issued, calls the
\* storeSensorHash calls issued, waits the tx.wait() calls issued; failed names
\* the await that rejected
IdleReq ==
    [ep |-> "none", pc |-> "idle", body |-> EmptyBody,
     rawData |-> None, aggregate |-> None, hash |-> None,
     tx |-> None, receipt |-> None, point |-> None,
     sent |-> <<>>, reads |-> 0, writes |-> 0, calls |-> 0, waits |-> 0,
     mapWrites |-> 0, failed |-> "none"]

\* requests are numbered in their order of arrival
CanArrive(r) ==
    /\ reqs[r].pc = "idle"
    /\ IF r = 1 THEN TRUE ELSE reqs[r - 1].pc # "idle"

\* res.status(status).json(body): the handler's response; every res call in
\* the handlers is the last statement of its path
Respond(req, status, body) ==
    [req EXCEPT !.sent = Append(@, [status |-> status, body |-> body]),
                !.pc = "done"]

ErrorBody(msg) == [error |-> msg]

(* --------------------- POST /aggregateAndAnchor ------------------------ *)

\* the null check left out
RawDataMissingNever(rawData) == FALSE

\* index.js:106  if (!rawData)
RawDataMissing(rawData) == ~rawData.exists

\* index.js:92-103  destructure, validate, issue the store read
AggStart(r) ==
    \E batchId \in Opt(BatchIds) :
        /\ CanArrive(r)
        /\ LET req == [IdleReq EXCEPT !.ep = "agg", !.body.batchId = batchId]
           IN  reqs' = [reqs EXCEPT ![r] =
                   IF batchId = None
                   THEN Respond(req, 400, ErrorBody(<<"batchId is required (e.g., 8)">>))
                   ELSE [req EXCEPT !.reads = @ + 1, !.pc = "fetch"]]
        /\ UNCHANGED <<vehicle_data, route, latest, ledger, activeTransports, now,
                       env_FIREBASE_DB_URL>>

\* index.js:104-153  the store read resolved: null check, partition, empty
\* check, aggregate, digest, and the call of contract.storeSensorHash
AggFetchOk(r) ==
    /\ reqs[r].ep = "agg" /\ reqs[r].pc = "fetch"
    /\ env_FIREBASE_DB_URL
    /\ LET batchId == Val(reqs[r].body.batchId)
           rawData == vehicle_data[batchId]
           req     == [reqs[r] EXCEPT !.rawData = Some(rawData)]
           agg     == Aggregate(batchId, rawData.children, now)
           hash    == SHA256(JSONStringify(agg))
       IN  IF RawDataMissing(rawData)
           THEN /\ reqs' = [reqs EXCEPT ![r] =
                       Respond(req, 404, ErrorBody(<<"No data found for BATCH_", batchId>>))]
                /\ UNCHANGED ledger
           ELSE IF ~rawData.exists
           THEN \* Object.values(null) throws a TypeError, caught at index.js:166
                /\ reqs' = [reqs EXCEPT ![r] =
                       Respond(req, 500,
                               ErrorBody(<<"Cannot convert undefined or null to object">>))]
                /\ UNCHANGED ledger
           ELSE IF Len(Temps(rawData.children)) = 0
           THEN /\ reqs' = [reqs EXCEPT ![r] =
                       Respond(req, 404, ErrorBody(
                           <<"No valid temperature/humidity fields found in the records">>))]
                /\ UNCHANGED ledger
           ELSE /\ ledger' = Append(ledger,
                       [batchId |-> batchId, hash |-> hash,
                        periodEnd |-> agg.periodEnd, state |-> "sent"])
                /\ reqs' = [reqs EXCEPT ![r] =
                       [req EXCEPT !.aggregate = Some(agg), !.hash = Some(hash),
                                   !.calls = @ + 1, !.tx = Some(Len(ledger) + 1),
                                   !.pc = "submit"]]
    /\ UNCHANGED <<vehicle_data, route, latest, activeTransports, now,
                   env_FIREBASE_DB_URL>>

\* the store read tried again after a failure
AggFetchFailRetry(r) ==
    /\ reqs[r].ep = "agg" /\ reqs[r].pc = "fetch"
    /\ reqs[r].reads < 3
    /\ reqs' = [reqs EXCEPT ![r] = [@ EXCEPT !.reads = @ + 1]]
    /\ UNCHANGED <<vehicle_data, route, latest, ledger, activeTransports, now,
                   env_FIREBASE_DB_URL>>

\* index.js:103,166-169  the store read rejected (network error, non-2xx, or
\* an unset FIREBASE_DB_URL giving an invalid URL): caught, 500
AggFetchFail(r) ==
    /\ reqs[r].ep = "agg" /\ reqs[r].pc = "fetch"
    /\ reqs' = [reqs EXCEPT ![r] =
           Respond([@ EXCEPT !.failed = "fetch"], 500, ErrorBody(<<"Network Error">>))]
    /\ UNCHANGED <<vehicle_data, route, latest, ledger, activeTransports, now,
                   env_FIREBASE_DB_URL>>

\* the confirmation not awaited: the success response leaves as soon as the
\* transaction is submitted, carrying the provisional transaction id
AggSubmitOkNoAwait(r) ==
    /\ reqs[r].ep = "agg" /\ reqs[r].pc = "submit"
    /\ ledger' = [ledger EXCEPT ![Val(reqs[r].tx)].state = "pending"]
    /\ reqs' = [reqs EXCEPT ![r] =
           Respond([@ EXCEPT !.waits = @ + 1], 200,
                   [status |-> "SUCCESS", batchId |-> Val(reqs[r].body.batchId),
                    blockchainTx |-> Val(reqs[r].tx), hash |-> Val(reqs[r].hash),
                    dataSummary |-> Val(reqs[r].aggregate)])]
    /\ UNCHANGED <<vehicle_data, route, latest, activeTransports, now,
                   env_FIREBASE_DB_URL>>

\* index.js:149-155  storeSensorHash resolved with the transaction; tx.wait()
\* is called
AggSubmitOk(r) ==
    /\ reqs[r].ep = "agg" /\ reqs[r].pc = "submit"
    /\ ledger' = [ledger EXCEPT ![Val(reqs[r].tx)].state = "pending"]
    /\ reqs' = [reqs EXCEPT ![r] = [@ EXCEPT !.waits = @ + 1, !.pc = "wait"]]
    /\ UNCHANGED <<vehicle_data, route, latest, activeTransports, now,
                   env_FIREBASE_DB_URL>>

\* index.js:149,166-169  storeSensorHash rejected: caught, 500 with the message
AggSubmitFail(r) ==
    /\ reqs[r].ep = "agg" /\ reqs[r].pc = "submit"
    /\ ledger' = [ledger EXCEPT ![Val(reqs[r].tx)].state = "rejected"]
    /\ reqs' = [reqs EXCEPT ![r] =
           Respond([@ EXCEPT !.failed = "submit"], 500,
                   ErrorBody(<<"transaction rejected">>))]
    /\ UNCHANGED <<vehicle_data, route, latest, activeTransports, now,
                   env_FIREBASE_DB_URL>>

\* index.js:158-164  the success body
SuccessBody(req) ==
    [status |-> "SUCCESS", batchId |-> Val(req.body.batchId),
     blockchainTx |-> Val(req.receipt), hash |-> Val(req.hash),
     dataSummary |-> Val(req.aggregate)]

\* index.js:155-164  tx.wait() resolved with the receipt of the mined
\* transaction; the success response is sent
AggWaitOk(r) ==
    /\ reqs[r].ep = "agg" /\ reqs[r].pc = "wait"
    /\ ledger' = [ledger EXCEPT ![Val(reqs[r].tx)].state = "confirmed"]
    /\ LET req == [reqs[r] EXCEPT !.receipt = reqs[r].tx]
       IN  reqs' = [reqs EXCEPT ![r] = Respond(req, 200, SuccessBody(req))]
    /\ UNCHANGED <<vehicle_data, route, latest, activeTransports, now,
                   env_FIREBASE_DB_URL>>

\* index.js:155,166-169  tx.wait() rejected (reverted, replaced): caught, 500
AggWaitFail(r) ==
    /\ reqs[r].ep = "agg" /\ reqs[r].pc = "wait"
    /\ ledger' = [ledger EXCEPT ![Val(reqs[r].tx)].state = "reverted"]
    /\ reqs' = [reqs EXCEPT ![r] =
           Respond([@ EXCEPT !.failed = "wait"], 500,
                   ErrorBody(<<"transaction execution reverted">>))]
    /\ UNCHANGED <<vehicle_data, route, latest, activeTransports, now,
                   env_FIREBASE_DB_URL>>

\* the wall clock advances
Tick ==
    /\ now < MaxClock
    /\ now' = now + 1
    /\ UNCHANGED <<reqs, vehicle_data, route, latest, ledger, activeTransports,
                   env_FIREBASE_DB_URL>>

(* --------------------------- specifications ---------------------------- *)

\* what the store may hold for a batch when one reading at most was pushed
OneReadingStoreVals ==
    {NullNode} \cup {Node(<<x>>) : x \in ReadingVals}

\* the server after start-up, the store holding nothing or one reading of
\* any shape for the batch
InitAggregate ==
    /\ reqs = [r \in Slots |-> IdleReq]
    /\ vehicle_data \in [BatchIds -> OneReadingStoreVals]
    /\ route = [k \in RouteKeys |-> <<>>]
    /\ latest = [k \in RouteKeys |-> None]
    /\ ledger = <<>>
    /\ activeTransports = [b \in BatchIds |-> None]
    /\ now = 1
    /\ env_FIREBASE_DB_URL \in BOOLEAN

\* any number of /aggregateAndAnchor requests, one after the other or
\* overlapping
NextAggregate ==
    \/ \E r \in Slots : AggStart(r)
    \/ \E r \in Slots : AggFetchOk(r)
    \/ \E r \in Slots : AggFetchFail(r)
    \/ \E r \in Slots : AggSubmitOk(r)
    \/ \E r \in Slots : AggSubmitFail(r)
    \/ \E r \in Slots : AggWaitOk(r)
    \/ \E r \in Slots : AggWaitFail(r)
    \/ Tick

SpecAggregate == InitAggregate /\ [][NextAggregate]_vars

\* the server after start-up, the store holding nothing or any sequence of
\* up to MaxReadings readings for the batch
InitDigest ==
    /\ reqs = [r \in Slots |-> IdleReq]
    /\ vehicle_data \in [BatchIds -> StoreVals]
    /\ route = [k \in RouteKeys |-> <<>>]
    /\ latest = [k \in RouteKeys |-> None]
    /\ ledger = <<>>
    /\ activeTransports = [b \in BatchIds |-> None]
    /\ now = 1
    /\ env_FIREBASE_DB_URL \in BOOLEAN

\* one /aggregateAndAnchor request run over the stored readings
NextDigest ==
    \/ AggStart(1)
    \/ AggFetchOk(1)
    \/ AggFetchFail(1)
    \/ AggSubmitOk(1)
    \/ AggSubmitFail(1)
    \/ AggWaitOk(1)
    \/ AggWaitFail(1)
    \/ Tick

SpecDigest == InitDigest /\ [][NextDigest]_vars

(* ------------------------- POST /local-pickup -------------------------- *)

Transporters == {"Nimal"}

Locations == {"Matale"}

Times == {"08:30"}

\* index.js:36-53  the whole handler (it awaits nothing)
LocalPickup(r) ==
    \E batchId \in Opt(BatchIds), transporter \in Opt(Transporters),
       location \in Opt(Locations), time \in Opt(Times) :
        /\ CanArrive(r)
        /\ LET req == [IdleReq EXCEPT !.ep = "pickup", !.body.batchId = batchId,
                                      !.body.transporter = transporter,
                                      !.body.location = location, !.body.time = time]
           IN  IF batchId = None \/ transporter = None
               THEN /\ reqs' = [reqs EXCEPT ![r] =
                           Respond(req, 400, ErrorBody(<<"Missing pickup data">>))]
                    /\ UNCHANGED activeTransports
               ELSE /\ activeTransports' = [activeTransports EXCEPT ![Val(batchId)] =
                           Some([transporter |-> Val(transporter),
                                 pickupLocation |-> location,
                                 pickupTime |-> time,
                                 status |-> "In Transit"])]
                    /\ reqs' = [reqs EXCEPT ![r] =
                           Respond([req EXCEPT !.mapWrites = @ + 1], 200,
                                   [success |-> TRUE,
                                    message |-> "Pickup recorded in backend"])]
        /\ UNCHANGED <<vehicle_data, route, latest, ledger, now, env_FIREBASE_DB_URL>>

(* -------------------------- GET /get-placename ------------------------- *)

\* the address object of a reverse-geocoding answer
Addresses ==
    [amenity : Opt({"Cafe"}), shop : Opt({"Grocery"}), road : Opt({"Kandy Road"}),
     city : Opt({"Colombo"})]

\* response.data of the geocoder: with or without an address member
GeoData == [address : Opt(Addresses)]

\* index.js:184  the first truthy of amenity, shop, road, city, else the
\* literal "Unknown Location"
DisplayName(address) ==
    IF address.amenity # None THEN Val(address.amenity)
    ELSE IF address.shop # None THEN Val(address.shop)
    ELSE IF address.road # None THEN Val(address.road)
    ELSE IF address.city # None THEN Val(address.city)
    ELSE "Unknown Location"

\* index.js:188  the response of the catch block
GeocodingErrorStatus == 500

\* index.js:175-181  read the query, issue the geocoder request
PlaceStart(r) ==
    \E lat \in Opt({[n |-> 6927]}), lng \in Opt({[n |-> 79861]}) :
        /\ CanArrive(r)
        /\ reqs' = [reqs EXCEPT ![r] =
               [IdleReq EXCEPT !.ep = "place", !.body.lat = lat, !.body.lng = lng,
                               !.pc = "geo"]]
        /\ UNCHANGED <<vehicle_data, route, latest, ledger, activeTransports, now,
                       env_FIREBASE_DB_URL>>

\* index.js:183-185,186-189  the geocoder answered: pick the name; reading
\* a member of an undefined address throws into the catch block
PlaceOk(r) ==
    \E data \in GeoData :
        /\ reqs[r].ep = "place" /\ reqs[r].pc = "geo"
        /\ reqs' = [reqs EXCEPT ![r] =
               IF data.address = None
               THEN Respond(@, GeocodingErrorStatus, [name |-> "Location Selected"])
               ELSE Respond(@, 200, [name |-> DisplayName(Val(data.address))])]
        /\ UNCHANGED <<vehicle_data, route, latest, ledger, activeTransports, now,
                       env_FIREBASE_DB_URL>>

\* index.js:186-189  the geocoder request rejected (network error, timeout,
\* non-2xx)
PlaceFail(r) ==
    /\ reqs[r].ep = "place" /\ reqs[r].pc = "geo"
    /\ reqs' = [reqs EXCEPT ![r] =
           Respond([@ EXCEPT !.failed = "geo"], GeocodingErrorStatus,
                   [name |-> "Location Selected"])]
    /\ UNCHANGED <<vehicle_data, route, latest, ledger, activeTransports, now,
                   env_FIREBASE_DB_URL>>

(* ------------------------ POST /update-location ------------------------ *)

\* a lat / lng member of the JSON body: a number, or a string that is no number
CoordInputs == Opt({[n |-> 6927], [s |-> "north"]})

\* index.js:207-208  parseFloat, then the JSON encoding of the request: NaN
\* (from undefined or a non-numeric string) is written as null
ParseFloat(x) ==
    IF x = None THEN None
    ELSE IF "n" \in DOMAIN Val(x) THEN Some(Val(x).n)
    ELSE None

\* index.js:204  the path segment BATCH_${batchId}
RouteKey(batchId) == IF batchId = None THEN "undefined" ELSE Val(batchId)

\* index.js:195-210  destructure, check the environment, issue the push of
\* the point to the route collection
UpdStart(r) ==
    \E batchId \in Opt(BatchIds), lat \in CoordInputs, lng \in CoordInputs :
        /\ CanArrive(r)
        /\ LET req == [IdleReq EXCEPT !.ep = "upd", !.body.batchId = batchId,
                                      !.body.lat = lat, !.body.lng = lng]
           IN  reqs' = [reqs EXCEPT ![r] =
                   IF ~env_FIREBASE_DB_URL
                   THEN Respond(req, 500,
                                ErrorBody(<<"FIREBASE_URL is missing in your .env file!">>))
                   ELSE [req EXCEPT !.point = Some([lat |-> ParseFloat(lat),
                                                    lng |-> ParseFloat(lng),
                                                    timestamp |-> now]),
                                    !.writes = @ + 1, !.pc = "post"]]
        /\ UNCHANGED <<vehicle_data, route, latest, ledger, activeTransports, now,
                       env_FIREBASE_DB_URL>>

\* index.js:206-213  the push resolved: the store appended the point under a
\* new key; res.sendStatus(200)
UpdPostOk(r) ==
    /\ reqs[r].ep = "upd" /\ reqs[r].pc = "post"
    /\ route' = [route EXCEPT ![RouteKey(reqs[r].body.batchId)] =
                    Append(@, Val(reqs[r].point))]
    /\ reqs' = [reqs EXCEPT ![r] = Respond(@, 200, [text |-> "OK"])]
    /\ UNCHANGED <<vehicle_data, latest, ledger, activeTransports, now,
                   env_FIREBASE_DB_URL>>

\* index.js:215-225  the push rejected: caught, 500
UpdPostFail(r) ==
    /\ reqs[r].ep = "upd" /\ reqs[r].pc = "post"
    /\ reqs' = [reqs EXCEPT ![r] =
           Respond([@ EXCEPT !.failed = "post"], 500, ErrorBody(<<"Network Error">>))]
    /\ UNCHANGED <<vehicle_data, route, latest, ledger, activeTransports, now,
                   env_FIREBASE_DB_URL>>

(* ------------------------- the whole server ---------------------------- *)

\* a store holding no readings, or one complete reading, for the batch
SampleStoreVals ==
    {NullNode,
     Node(<<[temperature_C |-> Some(20456), humidity_pct |-> Some(55420),
             local_timestamp_ms |-> Some(1000)]>>)}

Init ==
    /\ reqs = [r \in Slots |-> IdleReq]
    /\ vehicle_data \in [BatchIds -> SampleStoreVals]
    /\ route = [k \in RouteKeys |-> <<>>]
    /\ latest = [k \in RouteKeys |-> None]
    /\ ledger = <<>>
    /\ activeTransports = [b \in BatchIds |-> None]
    /\ now = 1
    /\ env_FIREBASE_DB_URL \in BOOLEAN

Next ==
    \/ \E r \in Slots : LocalPickup(r)
    \/ \E r \in Slots : AggStart(r)
    \/ \E r \in Slots : AggFetchOk(r)
    \/ \E r \in Slots : AggFetchFail(r)
    \/ \E r \in Slots : AggSubmitOk(r)
    \/ \E r \in Slots : AggSubmitFail(r)
    \/ \E r \in Slots : AggWaitOk(r)
    \/ \E r \in Slots : AggWaitFail(r)
    \/ \E r \in Slots : PlaceStart(r)
    \/ \E r \in Slots : PlaceOk(r)
    \/ \E r \in Slots : PlaceFail(r)
    \/ \E r \in Slots : UpdStart(r)
    \/ \E r \in Slots : UpdPostOk(r)
    \/ \E r \in Slots : UpdPostFail(r)
    \/ Tick

Spec == Init /\ [][Next]_vars

(* ------------------------------ claims --------------------------------- *)

AggReqs == {r \in Slots : reqs[r].ep = "agg"}

\* the store read of request r resolved with null
FetchedNull(r) ==
    reqs[r].rawData # None /\ ~Val(reqs[r].rawData).exists

\* the store read of request r resolved with an object of readings
FetchedData(r) ==
    reqs[r].rawData # None /\ Val(reqs[r].rawData).exists

Children(r) == Val(reqs[r].rawData).children

\* the readings of request r that carry both fields
WithBoth(r) ==
    {i \in 1..Len(Children(r)) :
        Children(r)[i].temperature_C # None /\ Children(r)[i].humidity_pct # None}

SentStatuses(r) == {reqs[r].sent[i].status : i \in 1..Len(reqs[r].sent)}

\* C1 as stated: a request whose raw fetch returned null is answered 404 with
\* the body {error: "No sensor data found"} and makes no ledger call.
C1_Original ==
    \A r \in AggReqs :
        FetchedNull(r) =>
            /\ reqs[r].sent = <<[status |-> 404,
                                 body |-> [error |-> <<"No sensor data found">>]]>>
            /\ reqs[r].calls = 0

\* C1 amended: a request whose raw fetch returned null is answered, once, 404
\* with the body {error: "No data found for BATCH_<batchId>"}, and makes no
\* ledger call: nothing is submitted and nothing is awaited.
C1_NoDataFound ==
    \A r \in AggReqs :
        FetchedNull(r) =>
            /\ reqs[r].pc = "done"
            /\ reqs[r].sent =
                   <<[status |-> 404,
                      body |-> [error |-> <<"No data found for BATCH_",
                                            Val(reqs[r].body.batchId)>>]]>>
            /\ reqs[r].calls = 0 /\ reqs[r].waits = 0 /\ reqs[r].tx = None
            /\ \A i \in 1..Len(ledger) :
                   ledger[i].batchId = Val(reqs[r].body.batchId) =>
                       \E q \in AggReqs \ {r} : reqs[q].tx = Some(i)

\* C1 witness: a request got null from the store and has answered.
C1_Witness ==
    \E r \in AggReqs : FetchedNull(r) /\ reqs[r].pc = "done"

\* C2 as stated: /get-placename answers 200 with a non-empty name whatever
\* the geocoder did.
C2_AlwaysOk ==
    \A r \in Slots :
        (reqs[r].ep = "place" /\ reqs[r].pc = "done") =>
            /\ Len(reqs[r].sent) = 1
            /\ reqs[r].sent[1].status = 200
            /\ reqs[r].sent[1].body.name # ""

\* C3 as stated: over any sequence or interleaving of requests, at most one
\* storeSensorHash call is ever made for one batchId.
C3_WrittenOnce ==
    \A b \in BatchIds :
        Cardinality({i \in 1..Len(ledger) : ledger[i].batchId = b}) <= 1

\* C4: a success response is sent only after tx.wait() resolved, it carries
\* the hash of the confirmation receipt, which is the confirmed transaction
\* of this request; when the submission or the confirmation failed, the only
\* response is a 500 and no success response is sent.
C4_SuccessAfterConfirmation ==
    \A r \in AggReqs :
        /\ \A i \in 1..Len(reqs[r].sent) :
               reqs[r].sent[i].status = 200 =>
                   /\ reqs[r].sent[i].body.status = "SUCCESS"
                   /\ reqs[r].waits = 1
                   /\ reqs[r].receipt # None
                   /\ reqs[r].receipt = reqs[r].tx
                   /\ ledger[Val(reqs[r].tx)].state = "confirmed"
                   /\ reqs[r].sent[i].body.blockchainTx = Val(reqs[r].receipt)
        /\ reqs[r].failed \in {"submit", "wait"} =>
               /\ Len(reqs[r].sent) = 1
               /\ SentStatuses(r) = {500}
               /\ ledger[Val(reqs[r].tx)].state \in {"rejected", "reverted"}

\* C4 witness: one request answered SUCCESS and another one failed at the
\* submission or the confirmation.
C4_Witness ==
    /\ \E r \in AggReqs : 200 \in SentStatuses(r)
    /\ \E r \in AggReqs : reqs[r].failed \in {"submit", "wait"}

\* C5 as stated: for /local-pickup, /aggregateAndAnchor and /update-location,
\* a request lacking a required field is answered 400 and causes no store
\* read or write, no ledger call and no change of activeTransports.
C5_MissingFields400 ==
    \A r \in Slots :
        LET b == reqs[r].body
            lacking ==
                \/ reqs[r].ep = "pickup" /\ (b.batchId = None \/ b.transporter = None)
                \/ reqs[r].ep = "agg" /\ b.batchId = None
                \/ reqs[r].ep = "upd"
                     /\ (b.batchId = None \/ b.lat = None \/ b.lng = None)
        IN  lacking =>
                /\ SentStatuses(r) = {400}
                /\ reqs[r].reads = 0 /\ reqs[r].writes = 0
                /\ reqs[r].calls = 0 /\ reqs[r].mapWrites = 0

\* C6 as stated: two runs of the digest computation for the same batchId
\* over the same stored readings give the same aggregate and the same digest,
\* whatever the wall-clock time of each run.
C6_DigestDeterminism ==
    \A r1, r2 \in AggReqs :
        (/\ reqs[r1].aggregate # None /\ reqs[r2].aggregate # None
         /\ reqs[r1].body.batchId = reqs[r2].body.batchId
         /\ reqs[r1].rawData = reqs[r2].rawData) =>
            /\ reqs[r1].aggregate = reqs[r2].aggregate
            /\ reqs[r1].hash = reqs[r2].hash

\* C7 as stated: after any successful updates of a batch, its latest-position
\* slot equals the last element of its route history.
C7_BothViews ==
    \A k \in RouteKeys :
        route[k] # <<>> => latest[k] = Some(route[k][Len(route[k])])

C8_WitnessMixed ==
    \E r \in AggReqs :
        /\ FetchedData(r)
        /\ reqs[r].aggregate # None
        /\ Cardinality(WithBoth(r)) < Len(Children(r))

\* C9 as stated: minTemp <= avgTemp <= maxTemp as numbers, minTemp and
\* maxTemp are elements of the accepted temperatures, and sampleCount is the
\* number of accepted readings.  (avgTemp is in hundredths, the others in
\* thousandths.)
C9_MinAvgMax ==
    \A r \in AggReqs :
        reqs[r].aggregate # None =>
            LET a == Val(reqs[r].aggregate)
            IN  /\ a.minTemp <= 10 * a.avgTemp
                /\ 10 * a.avgTemp <= a.maxTemp
                /\ \E i \in WithBoth(r) : a.minTemp = Val(Children(r)[i].temperature_C)
                /\ \E i \in WithBoth(r) : a.maxTemp = Val(Children(r)[i].temperature_C)
                /\ a.sampleCount = Cardinality(WithBoth(r))

\* C10: within one request at most one store read, one ledger submission
\* and one confirmation wait are issued; the submission follows a store read
\* that gave readings carrying both fields; a failed store read, submission
\* or wait ends the request with one 5xx JSON error and no later external
\* call; a request has sent one response when it is over and none before;
\* and the ledger holds exactly the submissions of the requests.
C10_SingleAttemptSingleResponse ==
    /\ \A r \in AggReqs :
        /\ reqs[r].reads <= 1 /\ reqs[r].calls <= 1 /\ reqs[r].waits <= 1
        /\ reqs[r].calls = 1 =>
               reqs[r].reads = 1 /\ FetchedData(r) /\ WithBoth(r) # {}
        /\ reqs[r].waits = 1 => reqs[r].calls = 1
        /\ reqs[r].failed = "fetch" => reqs[r].calls = 0 /\ reqs[r].waits = 0
        /\ reqs[r].failed = "submit" => reqs[r].waits = 0
        /\ reqs[r].failed # "none" =>
               /\ reqs[r].pc = "done"
               /\ Len(reqs[r].sent) = 1
               /\ reqs[r].sent[1].status \in 500..599
               /\ DOMAIN reqs[r].sent[1].body = {"error"}
        /\ Len(reqs[r].sent) = (IF reqs[r].pc = "done" THEN 1 ELSE 0)
    /\ Len(ledger) = Cardinality({r \in AggReqs : reqs[r].calls = 1})

\* C10 witness: a request whose confirmation wait failed, after one store
\* read and one submission, is over.
C10_Witness ==
    \E r \in AggReqs :
        /\ reqs[r].failed = "wait" /\ reqs[r].pc = "done"
        /\ reqs[r].reads = 1 /\ reqs[r].calls = 1 /\ reqs[r].waits = 1

====
